---- MODULE Spec2Model ----
(***************************************************************************)
(* A model of tinyfonts: the font library (Font, normalizeGlyphKeys,       *)
(* drawText, measureText, wrapText) and the editor's font operations       *)
(* (App: setters, handleKeyDown, renderPreview, snapshots, paste, drop).   *)
(*                                                                         *)
(* A JavaScript string is a sequence of UTF-16 code units (numbers); an    *)
(* object used as a table is a function from property keys (strings) to    *)
(* values, and table[code] looks up the key NumberToString(code).          *)
(***************************************************************************)
EXTENDS Integers, Sequences, FiniteSets, TLC

VARIABLES
    \* Font construction from a settings table (normalizeGlyphKeys)
    field,        \* which override table of the settings is supplied
    mapping,      \* the intended mappings, character code -> value
    charFont,     \* the Font constructed from the character-keyed table
    codeFont,     \* the Font constructed from the numeric-code-keyed table
    built,        \* which of the two constructions have run
    \* the arguments of a call of measureText, wrapText or drawText
    font,         \* the Font
    text,         \* the string
    \* measureText
    measured,     \* whether measureText has returned
    bounds,       \* the {width, height} it returned
    \* wrapText
    maxWidth,     \* the maxWidth argument
    wpc,          \* where the call is: "call", "loop" or "done"
    words,        \* text.split(/(\s)/g)
    wordIndex,    \* the position in words of the next token of the loop
    line,         \* the accumulating line
    width,        \* the running width of the line
    lines,        \* the lines pushed so far (the result, once done)
    \* drawText
    originX,      \* the x argument
    originY,      \* the y argument
    color,        \* the color argument ("" for none)
    dpc,          \* where the call is: "loop" or "done"
    charIndex,    \* the position in text of the next character (i + 1)
    tx,           \* the cursor
    ty,
    calls,        \* the ctx.drawImage calls issued so far, in order
    \* the editor (App); its font is the variable font
    selectedCharCode,
    previewText,
    previewForegroundColor,
    previewBackgroundColor,
    previewBackgroundTransparency,
    previewStrokeColor,
    previewStrokeBits,
    previewPadding,
    previewCanvasWidth,
    previewTextWrappingEnabled,
    previewCanvas,  \* what renderPreview last did to the preview canvas
    steps,          \* the number of events and calls handled so far
    rendered,       \* what the last renderPreview gave the core
    popupMessage,
    popupMessageVisible,
    localStorage,   \* the snapshots localStorage.snapshot holds: none or one
    emptySnapshot,  \* the module's emptySnapshot object
    shared,         \* whether the font's tables are emptySnapshot's objects
    mpc,            \* where mount() is: "constructed", "awaitingDecode",
                    \* "awaitingLoad" or "mounted"
    fontImageDecoded, \* whether fontImage has been decoded
    loading,        \* the loadSnapshot calls awaiting texture.decode()
    pasting,        \* the paste and drop handlers awaiting their texture
    issuedLast,     \* the image of the font-loading request issued last
    clipboard       \* what exportJavaScript wrote last

keyVars == <<field, mapping, charFont, codeFont, built>>
textVars == <<font, text>>
measureVars == <<measured, bounds>>
wrapVars == <<maxWidth, wpc, words, wordIndex, line, width, lines>>

drawVars == <<originX, originY, color, dpc, charIndex, tx, ty, calls>>

previewVars == <<previewForegroundColor, previewBackgroundColor,
                 previewBackgroundTransparency, previewStrokeColor,
                 previewStrokeBits, previewPadding, previewCanvasWidth,
                 previewTextWrappingEnabled>>
popupVars == <<popupMessage, popupMessageVisible>>
loadVars == <<localStorage, emptySnapshot, shared, mpc, fontImageDecoded,
              loading, pasting, issuedLast>>
appVars == <<selectedCharCode, previewText, previewVars, previewCanvas, steps,
             rendered, popupVars, loadVars, clipboard>>

vars == <<keyVars, textVars, measureVars, wrapVars, drawVars, appVars>>

-----------------------------------------------------------------------------
(* Bounds of the model *)

\* override values drawn for the settings tables are 1..MaxValue
MaxValue == 2

\* a settings table of the construction check has at most MaxEntries entries
MaxEntries == 2

\* the strings given to measureText, wrapText and drawText have at most
\* MaxTextLen characters
MaxTextLen == 4

\* the editor handles at most MaxSteps events and calls
MaxSteps == 2

-----------------------------------------------------------------------------
(* JavaScript strings and numbers *)

\* "\n": the line break drawText, measureText and wrapText compare against
NEWLINE == 10

\* " ": the space wrapText compares against, and the code of advance(32)
SPACE == 32

\* the code units String.prototype.trim, /\s/ and parseInt treat as white
\* space (those below 128: tab, LF, VT, FF, CR, space)
WhiteSpace == {9, 10, 11, 12, 13, 32}

Digits == 48..57

\* Number -> String for an integer: its decimal digits ("-" first if negative)
RECURSIVE NumberToString(_)
NumberToString(n) ==
    IF n < 0 THEN <<45>> \o NumberToString(-n)
    ELSE IF n < 10 THEN <<48 + n>>
    ELSE NumberToString(n \div 10) \o <<48 + (n % 10)>>

RECURSIVE SkipWhiteSpace(_)
SkipWhiteSpace(s) ==
    IF s # <<>> /\ Head(s) \in WhiteSpace THEN SkipWhiteSpace(Tail(s)) ELSE s

\* the value of the longest prefix of decimal digits of s, given the value
\* acc of the digits already read
RECURSIVE DigitsValue(_, _)
DigitsValue(s, acc) ==
    IF s # <<>> /\ Head(s) \in Digits
    THEN DigitsValue(Tail(s), acc * 10 + (Head(s) - 48))
    ELSE acc

\* parseInt(string) with no radix: leading white space is skipped, then an
\* optional sign, then the longest run of decimal digits; no digit gives NaN
\* (finite = FALSE).  A "0x" prefix (radix 16) is not modelled: no key of the
\* model has two characters starting with "0".
parseInt(s) ==
    LET t == SkipWhiteSpace(s)
        neg == t # <<>> /\ Head(t) = 45
        u == IF t # <<>> /\ Head(t) \in {43, 45} THEN Tail(t) ELSE t
    IN  IF u # <<>> /\ Head(u) \in Digits
        THEN [finite |-> TRUE,
              value |-> IF neg THEN -DigitsValue(u, 0) ELSE DigitsValue(u, 0)]
        ELSE [finite |-> FALSE, value |-> 0]

\* isFinite(number)
isFinite(p) == p.finite

-----------------------------------------------------------------------------
(* Objects used as tables *)

EmptyTable == <<>>

\* table[key] = value with a string key
Put(table, key, value) ==
    [k \in DOMAIN table \cup {key} |-> IF k = key THEN value ELSE table[k]]

\* delete table[key]
Delete(table, key) == [k \in DOMAIN table \ {key} |-> table[k]]

\* table[code] ?? default: the property key of a number is NumberToString of it
Get(table, code, default) ==
    IF NumberToString(code) \in DOMAIN table
    THEN table[NumberToString(code)]
    ELSE default

\* table[code] = value
Set(table, code, value) == Put(table, NumberToString(code), value)

\* delete table[code]
Remove(table, code) == Delete(table, NumberToString(code))

\* a table written with numeric keys: {53: 1} has the key "53"
CodeKeyed(m) == [k \in {NumberToString(c) : c \in DOMAIN m} |->
                    m[CHOOSE c \in DOMAIN m : NumberToString(c) = k]]

-----------------------------------------------------------------------------
(* font.js: Font *)

\* the property key an entry of normalizeGlyphKeys's result gets: the key
\* itself when parseInt of it is finite, else the code of its first character
NormalizedKey(key) ==
    IF isFinite(parseInt(key)) THEN key ELSE NumberToString(key[1])

\* the keys of table that are rewritten to the key r: the literal characters
\* whose code is r
RewrittenTo(table, r) ==
    {k \in DOMAIN table : ~isFinite(parseInt(k)) /\ NumberToString(k[1]) = r}

\* Object.fromEntries(Object.entries(table).map(...)): every entry is put
\* under its normalized key and a later entry overwrites an earlier one with
\* the same key.  Object.entries lists the integer keys first, so when a
\* numeric key r and a literal character of code r are both present the
\* character's value, put later, is the one that stays (the tables of the
\* model hold single characters, so no two rewritten keys collide).
normalizeGlyphKeys(table) ==
    [r \in {NormalizedKey(k) : k \in DOMAIN table} |->
        IF RewrittenTo(table, r) # {}
        THEN table[CHOOSE k \in RewrittenTo(table, r) : TRUE]
        ELSE table[r]]

\* settings.name ?? default for an optional field of the settings object
Optional(settings, name, default) ==
    IF name \in DOMAIN settings THEN settings[name] ELSE default

\* new Font(texture, settings)
Font(texture, settings) ==
    [texture       |-> texture,
     glyphWidth    |-> settings.glyphWidth,
     glyphHeight   |-> settings.glyphHeight,
     lineHeight    |-> Optional(settings, "lineHeight", settings.glyphHeight),
     startCharCode |-> Optional(settings, "startCharCode", 32),
     codepage      |-> normalizeGlyphKeys(Optional(settings, "codepage", EmptyTable)),
     advanceWidths |-> normalizeGlyphKeys(Optional(settings, "advanceWidths", EmptyTable)),
     xOffsets      |-> normalizeGlyphKeys(Optional(settings, "xOffsets", EmptyTable)),
     yOffsets      |-> normalizeGlyphKeys(Optional(settings, "yOffsets", EmptyTable)),
     textureCache  |-> EmptyTable]

\* Font.advance(charCode)
advance(f, charCode) == Get(f.advanceWidths, charCode, f.glyphWidth)

\* font.xOffsets[code] ?? 0
xOffsetOf(f, code) == Get(f.xOffsets, code, 0)

\* font.yOffsets[code] ?? 0
yOffsetOf(f, code) == Get(f.yOffsets, code, 0)

\* an image: its source, its pixel size, and whether it has been decoded
Image(src, w, h, decoded) ==
    [src |-> src, width |-> w, height |-> h, decoded |-> decoded]

\* fonts/5x8.png, 16 columns by 6 rows of 5x8 cells
fontImage == Image("fonts/5x8.png", 80, 48, TRUE)

-----------------------------------------------------------------------------
(* font.js: measureText *)

Max(a, b) == IF a >= b THEN a ELSE b

\* the loop of measureText from character i (1-based) on, with the values
\* of its three locals, and the value returned after the last character
RECURSIVE measureLoop(_, _, _, _, _, _)
measureLoop(f, t, i, w, n, lineWidth) ==
    IF i > Len(t)
    THEN [width |-> Max(w, lineWidth), height |-> n * f.lineHeight]
    ELSE IF t[i] = NEWLINE
    THEN measureLoop(f, t, i + 1, Max(w, lineWidth), n + 1, 0)
    ELSE measureLoop(f, t, i + 1, w, n,
                     lineWidth + Get(f.advanceWidths, t[i], f.glyphWidth))

\* a measureText that gives every character the glyph width, ignoring the
\* advance width overrides
measureTextIgnoringOverrides(f, t) ==
    measureLoop([f EXCEPT !.advanceWidths = EmptyTable], t, 1, 0, 1, 0)

\* measureText(font, text)
measureText(f, t) == measureLoop(f, t, 1, 0, 1, 0)

-----------------------------------------------------------------------------
(* font.js: wrapText *)

\* a number that may be Infinity
Finite(n) == [finite |-> TRUE, value |-> n]
Infinity == [finite |-> FALSE, value |-> 0]

\* a > b for a finite a and a b that may be Infinity
GreaterThan(a, b) == b.finite /\ a > b.value

\* text.split(/(\s)/g) from s on, word being the characters read since the
\* last white-space character: every white-space character is a token of its
\* own, between the (possibly empty) strings around it
RECURSIVE SplitFrom(_, _)
SplitFrom(s, word) ==
    IF s = <<>> THEN <<word>>
    ELSE IF Head(s) \in WhiteSpace
    THEN <<word, <<Head(s)>>>> \o SplitFrom(Tail(s), <<>>)
    ELSE SplitFrom(Tail(s), Append(word, Head(s)))

Split(s) == SplitFrom(s, <<>>)

RECURSIVE TrimStart(_)
TrimStart(s) ==
    IF s # <<>> /\ Head(s) \in WhiteSpace THEN TrimStart(Tail(s)) ELSE s

RECURSIVE TrimEnd(_)
TrimEnd(s) ==
    IF s # <<>> /\ s[Len(s)] \in WhiteSpace
    THEN TrimEnd(SubSeq(s, 1, Len(s) - 1)) ELSE s

\* String.prototype.trim
Trim(s) == TrimEnd(TrimStart(s))

\* a loop body that, on overflow, starts the new line without pushing the
\* line accumulated so far
wrapTokenDropsLine(f, max, st, word) ==
    IF word = <<SPACE>>
    THEN [st EXCEPT !.line = st.line \o <<SPACE>>,
                    !.width = st.width + advance(f, 32)]
    ELSE IF word = <<NEWLINE>>
    THEN [line |-> <<>>, width |-> 0, lines |-> Append(st.lines, st.line)]
    ELSE LET wordWidth == measureText(f, word).width
         IN  IF GreaterThan(st.width + wordWidth, max)
             THEN [line |-> word, width |-> wordWidth, lines |-> st.lines]
             ELSE [st EXCEPT !.line = st.line \o word,
                             !.width = st.width + wordWidth]

\* an iteration of wrapText's loop that appends a space to the line without
\* adding its advance to the width
wrapTokenUncountedSpace(f, max, st, word) ==
    IF word = <<SPACE>>
    THEN [st EXCEPT !.line = st.line \o <<SPACE>>]
    ELSE IF word = <<NEWLINE>>
    THEN [line |-> <<>>, width |-> 0, lines |-> Append(st.lines, st.line)]
    ELSE LET wordWidth == measureText(f, word).width
         IN  IF GreaterThan(st.width + wordWidth, max)
             THEN [line |-> word, width |-> wordWidth,
                   lines |-> Append(st.lines, st.line)]
             ELSE [st EXCEPT !.line = st.line \o word,
                             !.width = st.width + wordWidth]

\* one iteration of the loop of wrapText: the locals st = [line, width,
\* lines] after the token word
wrapToken(f, max, st, word) ==
    IF word = <<SPACE>>
    THEN [st EXCEPT !.line = st.line \o <<SPACE>>,
                    !.width = st.width + advance(f, 32)]
    ELSE IF word = <<NEWLINE>>
    THEN [line |-> <<>>, width |-> 0, lines |-> Append(st.lines, st.line)]
    ELSE LET wordWidth == measureText(f, word).width
         IN  IF GreaterThan(st.width + wordWidth, max)
             THEN [line |-> word, width |-> wordWidth,
                   lines |-> Append(st.lines, st.line)]
             ELSE [st EXCEPT !.line = st.line \o word,
                             !.width = st.width + wordWidth]

\* an end of wrapText that pushes the last line as it is, untrimmed
wrapFinishUntrimmed(st) ==
    IF st.line # <<>> THEN Append(st.lines, st.line) ELSE st.lines

\* the end of wrapText: the last line is trimmed and pushed if not empty
wrapFinish(st) ==
    IF Trim(st.line) # <<>> THEN Append(st.lines, Trim(st.line)) ELSE st.lines

RECURSIVE wrapLoop(_, _, _, _, _)
wrapLoop(f, max, tokens, i, st) ==
    IF i > Len(tokens) THEN st
    ELSE wrapLoop(f, max, tokens, i + 1, wrapToken(f, max, st, tokens[i]))

\* wrapText(font, text, maxWidth)
wrapText(f, t, max) ==
    wrapFinish(wrapLoop(f, max, Split(t), 1,
                        [line |-> <<>>, width |-> 0, lines |-> <<>>]))

-----------------------------------------------------------------------------
(* font.js: getColoredTexture and drawText *)

\* Math.floor(a / b) for b > 0
Floor(a, b) == a \div b

\* a % b of JavaScript for b > 0: the remainder has the sign of a
Remainder(a, b) == IF a >= 0 THEN a % b ELSE -((-a) % b)

\* (a / b) | 0 for b > 0: the quotient truncated toward zero
Truncate(a, b) == IF a >= 0 THEN a \div b ELSE -((-a) \div b)

\* getColoredTexture(font, color): the canvas returned and the font with its
\* textureCache.  A new canvas is filled from font.texture at once when the
\* image is loaded (naturalWidth > 0); otherwise it stays blank (content "")
\* until the decode of the image it awaits resolves.
getColoredTexture(f, c) ==
    IF c \in DOMAIN f.textureCache
    THEN [canvas |-> f.textureCache[c], font |-> f]
    ELSE LET canvas == [color |-> c,
                        content |-> IF f.texture.decoded THEN f.texture.src ELSE "",
                        awaiting |-> IF f.texture.decoded THEN "" ELSE f.texture.src]
         IN  [canvas |-> canvas,
              font |-> [f EXCEPT !.textureCache = Put(@, c, canvas)]]

\* the image drawImage copies from: the recoloured canvas for a color, else
\* font.texture
DrawSource(f, c) ==
    IF c # ""
    THEN [kind |-> "canvas", color |-> c, src |-> getColoredTexture(f, c).canvas.content]
    ELSE [kind |-> "image", color |-> "", src |-> f.texture.src]

\* a source cell computed with the grid's column count, Font.columns() (ceil)
SourceCellByColumns(f, code) ==
    LET rows == -Floor(-f.texture.width, f.glyphWidth)
        index == code - f.startCharCode
    IN  [sx |-> Remainder(index, rows) * f.glyphWidth,
         sy |-> Truncate(index, rows) * f.glyphHeight,
         sw |-> f.glyphWidth, sh |-> f.glyphHeight]

\* lines 413, 419, 422-427: the source rectangle of a character code
SourceCell(f, code) ==
    LET rows == Floor(f.texture.width, f.glyphWidth)
        index == code - f.startCharCode
        col == Remainder(index, rows)
        row == Truncate(index, rows)
    IN  [sx |-> col * f.glyphWidth, sy |-> row * f.glyphHeight,
         sw |-> f.glyphWidth, sh |-> f.glyphHeight]

\* a cursor step that also moves the cursor by the glyph's x offset
MoveCursorWithOffset(f, x, cur, ch) ==
    IF ch # NEWLINE
    THEN [tx |-> cur.tx + advance(f, ch) + xOffsetOf(f, ch), ty |-> cur.ty]
    ELSE [tx |-> x, ty |-> cur.ty + f.lineHeight]

\* lines 434-439: the cursor after the character ch
MoveCursor(f, x, cur, ch) ==
    IF ch # NEWLINE
    THEN [tx |-> cur.tx + advance(f, ch), ty |-> cur.ty]
    ELSE [tx |-> x, ty |-> cur.ty + f.lineHeight]

\* line 432: the drawImage call for the character code at cursor cur
DrawImageCall(f, c, code, cur) ==
    LET cell == SourceCell(f, code)
    IN  [texture |-> DrawSource(f, c),
         sx |-> cell.sx, sy |-> cell.sy, sw |-> cell.sw, sh |-> cell.sh,
         dx |-> cur.tx + xOffsetOf(f, code),
         dy |-> cur.ty + yOffsetOf(f, code),
         dw |-> cell.sw, dh |-> cell.sh]

-----------------------------------------------------------------------------
(* app.js: the editor's font operations and its preview *)

\* app.js line 7
GRID_COLUMNS == 16

\* app.js line 125: the advance widths of the font the editor starts with
DefaultAdvanceWidths ==
    CodeKeyed(33 :> 2 @@ 37 :> 4 @@ 39 :> 2 @@ 40 :> 3 @@ 41 :> 3 @@ 42 :> 4
           @@ 44 :> 3 @@ 46 :> 2 @@ 47 :> 4 @@ 58 :> 2 @@ 59 :> 3 @@ 60 :> 4
           @@ 62 :> 4 @@ 74 :> 6 @@ 76 :> 4 @@ 77 :> 6 @@ 78 :> 6 @@ 84 :> 6
           @@ 87 :> 6 @@ 89 :> 6 @@ 91 :> 3 @@ 92 :> 4 @@ 93 :> 3 @@ 94 :> 4
           @@ 96 :> 3 @@ 102 :> 4 @@ 105 :> 2 @@ 106 :> 4 @@ 108 :> 4
           @@ 109 :> 6 @@ 113 :> 6 @@ 116 :> 4 @@ 118 :> 6 @@ 119 :> 6
           @@ 123 :> 4 @@ 124 :> 2 @@ 125 :> 4)

\* app.js lines 120-126: App.font; its texture is fontImage, of which only
\* the src has been set (lines 105-106)
AppFont ==
    Font([fontImage EXCEPT !.decoded = FALSE], [glyphWidth |-> 5, glyphHeight |-> 8, lineHeight |-> 9,
                     advanceWidths |-> DefaultAdvanceWidths])

\* App.setXOffset(charCode, value)
setXOffset(f, charCode, value) ==
    IF value = 0
    THEN [f EXCEPT !.xOffsets = Remove(@, charCode)]
    ELSE [f EXCEPT !.xOffsets = Set(@, charCode, value)]

\* App.setYOffset(charCode, value)
setYOffset(f, charCode, value) ==
    IF value = 0
    THEN [f EXCEPT !.yOffsets = Remove(@, charCode)]
    ELSE [f EXCEPT !.yOffsets = Set(@, charCode, value)]

\* a setAdvanceWidth that takes 0 for the default, as the offset setters do
setAdvanceWidthZeroDefault(f, charCode, value) ==
    IF value = 0
    THEN [f EXCEPT !.advanceWidths = Remove(@, charCode)]
    ELSE [f EXCEPT !.advanceWidths = Set(@, charCode, value)]

\* App.setAdvanceWidth(charCode, value)
setAdvanceWidth(f, charCode, value) ==
    IF value = f.glyphWidth
    THEN [f EXCEPT !.advanceWidths = Remove(@, charCode)]
    ELSE [f EXCEPT !.advanceWidths = Set(@, charCode, value)]

\* Math.ceil(a / b) for b > 0
Ceil(a, b) == -((-a) \div b)

\* Font.columns()
columns(f) == Ceil(f.texture.width, f.glyphWidth)

\* App.renderEditorGlyph(canvas, charCode): the size it gives the canvas and
\* its drawImage call
renderEditorGlyph(f, charCode) ==
    LET index == charCode - f.startCharCode
        column == Remainder(index, columns(f))
        row == Floor(index, columns(f))
    IN  [width |-> f.glyphWidth, height |-> f.glyphHeight,
         texture |-> f.texture.src,
         sx |-> column * f.glyphWidth, sy |-> row * f.glyphHeight,
         sw |-> f.glyphWidth, sh |-> f.glyphHeight,
         dx |-> 0, dy |-> 0, dw |-> f.glyphWidth, dh |-> f.glyphHeight]

\* bits & b for a power of two b and bits >= 0
BitSet(bits, b) == (bits \div b) % 2 = 1

\* app.js lines 387-394: the bit of previewStrokeBits and the offset of each
\* stroke pass, in the order the passes are drawn
StrokeOffsets ==
    << <<1, 1, 0>>, <<2, 1, 1>>, <<4, 0, 1>>, <<8, -1, 1>>,
       <<16, -1, 0>>, <<32, -1, -1>>, <<64, 0, -1>>, <<128, 1, -1>> >>

\* the drawText calls for one line with the foreground pass drawn first
LinePassesForegroundFirst(p, ln, x, y) ==
    LET on == SelectSeq(StrokeOffsets, LAMBDA s : BitSet(p.strokeBits, s[1]))
    IN  <<[text |-> ln, x |-> x, y |-> y, color |-> p.foregroundColor]>>
        \o [i \in 1..Len(on) |->
               [text |-> ln, x |-> x + on[i][2], y |-> y + on[i][3],
                color |-> p.strokeColor]]

\* app.js lines 385-396: the drawText calls for one line at (x, y)
LinePasses(p, ln, x, y) ==
    LET on == SelectSeq(StrokeOffsets, LAMBDA s : BitSet(p.strokeBits, s[1]))
    IN  [i \in 1..Len(on) |->
            [text |-> ln, x |-> x + on[i][2], y |-> y + on[i][3],
             color |-> p.strokeColor]]
        \o <<[text |-> ln, x |-> x, y |-> y, color |-> p.foregroundColor]>>

\* app.js lines 384-399: the drawText calls for the lines from the i-th on
RECURSIVE PreviewPasses(_, _, _, _, _)
PreviewPasses(p, f, lns, i, y) ==
    IF i > Len(lns) THEN <<>>
    ELSE LinePasses(p, lns[i], p.padding, y)
         \o PreviewPasses(p, f, lns, i + 1, y + f.lineHeight)

\* the font after the drawText calls from the i-th on: drawText asks
\* getColoredTexture for the texture of its color once per character drawn
RECURSIVE CacheAfter(_, _, _)
CacheAfter(f, passes, i) ==
    IF i > Len(passes) THEN f
    ELSE IF passes[i].text # <<>> /\ passes[i].color # ""
    THEN CacheAfter(getColoredTexture(f, passes[i].color).font, passes, i + 1)
    ELSE CacheAfter(f, passes, i + 1)

\* App.renderPreview() for the preview settings p and the wrapped lines lns:
\* the canvas and the font it leaves.  Without wrapping and with no line,
\* measureText(font, undefined) throws at line 370 and the canvas keeps the
\* size set before, cleared.
renderLines(f, p, lns) ==
    IF ~p.wrapping /\ lns = <<>>
    THEN [font |-> f,
          canvas |-> [width |-> p.canvasWidth,
                      height |-> Len(lns) * f.lineHeight + p.padding * 2,
                      background |-> "", passes |-> <<>>, threw |-> TRUE]]
    ELSE [font |-> CacheAfter(f, PreviewPasses(p, f, lns, 1, p.padding), 1),
          canvas |-> [width |-> IF p.wrapping THEN p.canvasWidth
                                ELSE measureText(f, lns[1]).width + p.padding * 2,
                      height |-> Len(lns) * f.lineHeight + p.padding * 2,
                      background |-> IF p.transparency THEN "" ELSE p.backgroundColor,
                      passes |-> PreviewPasses(p, f, lns, 1, p.padding),
                      threw |-> FALSE]]

\* App.renderPreview()
renderPreview(f, p) ==
    renderLines(f, p,
                wrapText(f, p.text,
                         IF p.wrapping THEN Finite(p.canvasWidth - p.padding * 2)
                         ELSE Infinity))

\* handleKeyDown's reading of event.key
IsUp(key) == key \in {"ArrowUp", "k", "K"}
IsDown(key) == key \in {"ArrowDown", "j", "J"}
IsLeft(key) == key \in {"ArrowLeft", "h", "H"}
IsRight(key) == key \in {"ArrowRight", "l", "L"}

\* App.shouldIgnoreKeyEvent(event)
shouldIgnoreKeyEvent(event) == event.target \in {"INPUT", "TEXTAREA", "SELECT"}

\* app.js lines 447-470: the font handleKeyDown leaves for an arrow or
\* letter key, before it renders the preview
KeyFont(f, sel, event) ==
    LET key == event.key
    IN  IF event.shiftKey /\ IsLeft(key) THEN setXOffset(f, sel, xOffsetOf(f, sel) - 1)
        ELSE IF event.shiftKey /\ IsRight(key) THEN setXOffset(f, sel, xOffsetOf(f, sel) + 1)
        ELSE IF event.shiftKey /\ IsUp(key) THEN setYOffset(f, sel, yOffsetOf(f, sel) - 1)
        ELSE IF event.shiftKey /\ IsDown(key) THEN setYOffset(f, sel, yOffsetOf(f, sel) + 1)
        ELSE IF event.altKey /\ IsLeft(key) THEN setAdvanceWidth(f, sel, advance(f, sel) - 1)
        ELSE IF event.altKey /\ IsRight(key) THEN setAdvanceWidth(f, sel, advance(f, sel) + 1)
        ELSE IF event.altKey /\ IsUp(key) THEN [f EXCEPT !.lineHeight = @ - 1]
        ELSE IF event.altKey /\ IsDown(key) THEN [f EXCEPT !.lineHeight = @ + 1]
        ELSE IF event.metaKey /\ IsLeft(key) THEN [f EXCEPT !.glyphWidth = @ - 1]
        ELSE IF event.metaKey /\ IsRight(key) THEN [f EXCEPT !.glyphWidth = @ + 1]
        ELSE IF event.metaKey /\ IsUp(key) THEN [f EXCEPT !.glyphHeight = @ - 1]
        ELSE IF event.metaKey /\ IsDown(key) THEN [f EXCEPT !.glyphHeight = @ + 1]
        ELSE f

\* app.js lines 471-478: the selection handleKeyDown leaves
KeySelection(sel, event) ==
    LET key == event.key
        modified == event.shiftKey \/ event.altKey \/ event.metaKey
    IN  IF modified THEN sel
        ELSE IF IsLeft(key) THEN sel - 1
        ELSE IF IsRight(key) THEN sel + 1
        ELSE IF IsUp(key) THEN sel - GRID_COLUMNS
        ELSE IF IsDown(key) THEN sel + GRID_COLUMNS
        ELSE sel

\* the preview settings renderPreview reads
Preview ==
    [text |-> previewText,
     foregroundColor |-> previewForegroundColor,
     backgroundColor |-> previewBackgroundColor,
     transparency |-> previewBackgroundTransparency,
     strokeColor |-> previewStrokeColor,
     strokeBits |-> previewStrokeBits,
     padding |-> previewPadding,
     canvasWidth |-> previewCanvasWidth,
     wrapping |-> previewTextWrappingEnabled]

\* app.js lines 136-144: the preview fields of a new App
DefaultPreview ==
    [text |-> <<>>, foregroundColor |-> "#000000", backgroundColor |-> "#ffffff",
     transparency |-> FALSE, strokeColor |-> "#000000", strokeBits |-> 0,
     padding |-> 1, canvasWidth |-> 300, wrapping |-> TRUE]

\* app.js line 38
snapshotVersion == 1

\* the images of the model: the built-in texture, an image of the same size
\* (a saved or pasted variant of it) and a square image of another size
ImageSizes ==
    ("fonts/5x8.png" :> <<80, 48>>) @@ ("data:same" :> <<80, 48>>)
    @@ ("data:square" :> <<96, 96>>)

\* an image of the given source whose decode() has resolved
Decoded(src) == Image(src, ImageSizes[src][1], ImageSizes[src][2], TRUE)

\* the start of emptySnapshot.previewText, "In"
SampleText == <<73, 110>>

\* app.js lines 43-67: emptySnapshot as the module defines it
DefaultSnapshot ==
    [version |-> snapshotVersion,
     previewText |-> SampleText,
     previewForegroundColor |-> "#000000",
     previewBackgroundColor |-> "#ffffff",
     previewStrokeColor |-> "#000000",
     previewStrokeBits |-> 0,
     previewPadding |-> 1,
     previewCanvasWidth |-> 300,
     previewBackgroundTransparency |-> FALSE,
     previewTextWrappingEnabled |-> TRUE,
     textureUrl |-> "fonts/5x8.png",
     glyphWidth |-> 5, glyphHeight |-> 8, lineHeight |-> 9, startCharCode |-> 32,
     advanceWidths |-> DefaultAdvanceWidths,
     xOffsets |-> EmptyTable, yOffsets |-> EmptyTable, codepage |-> EmptyTable]

\* App.getSnapshot() for the font f and the preview settings p
getSnapshot(f, p) ==
    [version |-> snapshotVersion,
     previewText |-> p.text,
     previewForegroundColor |-> p.foregroundColor,
     previewBackgroundColor |-> p.backgroundColor,
     previewStrokeColor |-> p.strokeColor,
     previewStrokeBits |-> p.strokeBits,
     previewPadding |-> p.padding,
     previewCanvasWidth |-> p.canvasWidth,
     previewBackgroundTransparency |-> p.transparency,
     previewTextWrappingEnabled |-> p.wrapping,
     textureUrl |-> f.texture.src,
     glyphWidth |-> f.glyphWidth, glyphHeight |-> f.glyphHeight,
     lineHeight |-> f.lineHeight, startCharCode |-> f.startCharCode,
     advanceWidths |-> f.advanceWidths,
     xOffsets |-> f.xOffsets, yOffsets |-> f.yOffsets, codepage |-> f.codepage]

\* a loadSnapshot that takes a snapshot of any version
anyVersionAccepted(snapshot) == TRUE

\* app.js line 528: whether loadSnapshot goes on to load the snapshot
versionAccepted(snapshot) == snapshot.version = snapshotVersion

\* app.js lines 546-554: the font after loadSnapshot's assignments; the
\* texture is the new image, decoded, and the textureCache is left as it is
loadedFont(f, snapshot) ==
    [f EXCEPT !.glyphWidth = snapshot.glyphWidth,
              !.glyphHeight = snapshot.glyphHeight,
              !.lineHeight = snapshot.lineHeight,
              !.startCharCode = snapshot.startCharCode,
              !.advanceWidths = snapshot.advanceWidths,
              !.xOffsets = snapshot.xOffsets,
              !.yOffsets = snapshot.yOffsets,
              !.codepage = snapshot.codepage,
              !.texture = Decoded(snapshot.textureUrl)]

\* app.js lines 537-545: the preview settings after loadSnapshot
loadedPreview(snapshot) ==
    [text |-> snapshot.previewText,
     foregroundColor |-> snapshot.previewForegroundColor,
     backgroundColor |-> snapshot.previewBackgroundColor,
     transparency |-> snapshot.previewBackgroundTransparency,
     strokeColor |-> snapshot.previewStrokeColor,
     strokeBits |-> snapshot.previewStrokeBits,
     padding |-> snapshot.previewPadding,
     canvasWidth |-> snapshot.previewCanvasWidth,
     wrapping |-> snapshot.previewTextWrappingEnabled]

\* App.setTexture(image) with the answer given to confirm(), if it is asked
setTexture(f, image, confirmed) ==
    IF image.width = f.texture.width /\ image.height = f.texture.height
    THEN Font(image, [glyphWidth |-> f.glyphWidth,
                      glyphHeight |-> f.glyphHeight,
                      lineHeight |-> f.lineHeight,
                      startCharCode |-> f.startCharCode,
                      advanceWidths |-> f.advanceWidths,
                      xOffsets |-> f.xOffsets,
                      yOffsets |-> f.yOffsets,
                      codepage |-> f.codepage])
    ELSE IF ~confirmed THEN f
    ELSE Font(image, [glyphWidth |-> Ceil(image.width, 16),
                      glyphHeight |-> Ceil(image.height,
                                           IF image.width = image.height
                                           THEN 16 ELSE 6)])

\* whether setTexture(image) replaces this.font
replacesFont(f, image, confirmed) ==
    (image.width = f.texture.width /\ image.height = f.texture.height)
    \/ confirmed

\* whether setTexture(image) ends with showPopup("Created new font!")
createsFont(f, image, confirmed) ==
    ~(image.width = f.texture.width /\ image.height = f.texture.height)
    /\ confirmed

\* app.js lines 568-577: the settings exportJavaScript writes as text
exportedSettings(f) ==
    [glyphWidth |-> f.glyphWidth, glyphHeight |-> f.glyphHeight,
     lineHeight |-> f.lineHeight, startCharCode |-> f.startCharCode,
     advanceWidths |-> f.advanceWidths, xOffsets |-> f.xOffsets,
     yOffsets |-> f.yOffsets, codepage |-> f.codepage]

\* the font once the decode of its texture resolves: the image is loaded
\* and every recoloured canvas that waited for it is drawn from font.texture
decodedFont(f) ==
    [f EXCEPT !.texture.decoded = TRUE,
              !.textureCache =
                  [c \in DOMAIN @ |->
                      IF @[c].awaiting # ""
                      THEN [@[c] EXCEPT !.content = f.texture.src, !.awaiting = ""]
                      ELSE @[c]]]

\* the colors of the drawText calls of a render that draw a character
drawnColors(passes) ==
    {passes[i].color : i \in {j \in 1..Len(passes) : passes[j].text # <<>>}}

\* what a call of renderPreview() gave the core: the glyph size of the font
\* it passed to wrapText, measureText and drawText, and for every color it
\* drew with, the image drawImage copied from and the texture of the font
rendering(f, p) ==
    [glyphWidth |-> f.glyphWidth,
     glyphHeight |-> f.glyphHeight,
     sources |->
        {[color |-> c,
          content |-> getColoredTexture(renderPreview(f, p).font, c).canvas.content,
          texture |-> f.texture.src,
          decoded |-> f.texture.decoded] :
            c \in drawnColors(renderPreview(f, p).canvas.passes)}]

\* handleKeyDown's first two branches
IsNewFontKey(event) == event.shiftKey /\ event.key = "N"
IsExportKey(event) == ~IsNewFontKey(event) /\ event.key = "e"

\* the fields of a new App (the x-effect of the preview canvas has rendered
\* it once) and what the page holds beside it
NewApp ==
    /\ selectedCharCode = 32
    /\ previewText = DefaultPreview.text
    /\ previewForegroundColor = DefaultPreview.foregroundColor
    /\ previewBackgroundColor = DefaultPreview.backgroundColor
    /\ previewBackgroundTransparency = DefaultPreview.transparency
    /\ previewStrokeColor = DefaultPreview.strokeColor
    /\ previewStrokeBits = DefaultPreview.strokeBits
    /\ previewPadding = DefaultPreview.padding
    /\ previewCanvasWidth = DefaultPreview.canvasWidth
    /\ previewTextWrappingEnabled = DefaultPreview.wrapping
    /\ previewCanvas = renderPreview(AppFont, DefaultPreview).canvas
    /\ rendered = rendering(AppFont, DefaultPreview)
    /\ popupMessage = "" /\ popupMessageVisible = FALSE
    /\ emptySnapshot = DefaultSnapshot
    /\ shared = FALSE
    /\ mpc = "constructed"
    /\ fontImageDecoded = FALSE
    /\ loading = {} /\ pasting = {}
    /\ issuedLast = ""
    /\ clipboard = <<>>

IdleApp == NewApp /\ steps = 0 /\ localStorage = {}

-----------------------------------------------------------------------------
(* Constructing a Font from a character-keyed and from a code-keyed table *)

\* the character codes the settings tables of the model may mention:
\* control characters, " ", the digits "5" and "9", "I" and "y"
KeyCodes == {5, 9, 32, 53, 57, 73, 121}

Fields == {"advanceWidths", "xOffsets", "yOffsets"}

\* the table literal keyed by the single literal character of each code
CharKeyed(m) == [k \in {<<c>> : c \in DOMAIN m} |-> m[k[1]]]

BaseSettings == [glyphWidth |-> 5, glyphHeight |-> 8, lineHeight |-> 9,
                 startCharCode |-> 32]

SettingsWith(name, table) == (name :> table) @@ BaseSettings

\* the state of the variables of a call that is not part of a specification
NoFont == Font(fontImage, BaseSettings)
IdleKeys ==
    /\ field = "advanceWidths" /\ mapping = <<>>
    /\ charFont = NoFont /\ codeFont = NoFont /\ built = {}
IdleText == font = NoFont /\ text = <<>>
IdleMeasure == measured = FALSE /\ bounds = [width |-> 0, height |-> 0]
IdleWrap ==
    /\ maxWidth = Infinity /\ wpc = "idle" /\ words = <<>> /\ wordIndex = 1
    /\ line = <<>> /\ width = 0 /\ lines = <<>>

IdleDraw ==
    /\ originX = 0 /\ originY = 0 /\ color = "" /\ dpc = "idle"
    /\ charIndex = 1 /\ tx = 0 /\ ty = 0 /\ calls = <<>>

InitKeys ==
    /\ field \in Fields
    /\ mapping \in UNION {[D -> 1..MaxValue] : D \in {S \in SUBSET KeyCodes : Cardinality(S) <= MaxEntries}}
    /\ charFont = Font(fontImage, BaseSettings)
    /\ codeFont = Font(fontImage, BaseSettings)
    /\ built = {}
    /\ IdleText /\ IdleMeasure /\ IdleWrap /\ IdleDraw /\ IdleApp

ConstructFromChars ==
    /\ "chars" \notin built
    /\ charFont' = Font(fontImage, SettingsWith(field, CharKeyed(mapping)))
    /\ built' = built \cup {"chars"}
    /\ UNCHANGED <<field, mapping, codeFont, textVars, measureVars, wrapVars, drawVars, appVars>>

ConstructFromCodes ==
    /\ "codes" \notin built
    /\ codeFont' = Font(fontImage, SettingsWith(field, CodeKeyed(mapping)))
    /\ built' = built \cup {"codes"}
    /\ UNCHANGED <<field, mapping, charFont, textVars, measureVars, wrapVars, drawVars, appVars>>

NextKeys == ConstructFromChars \/ ConstructFromCodes

SpecKeys == InitKeys /\ [][NextKeys]_vars

-----------------------------------------------------------------------------
(* Calls of measureText and wrapText *)

\* the characters of the texts: "A", "I", " ", "\n" and tab
Alphabet == {65, 73, SPACE, NEWLINE, 9}

Texts == UNION {[1..n -> Alphabet] : n \in 0..MaxTextLen}

\* 5x8 fonts with line height 9: no override; the README's "I" of advance 2;
\* a narrow space and a negative advance, which the editor's alt-left reaches
TextFonts ==
    {Font(fontImage, SettingsWith("advanceWidths", t)) :
        t \in {EmptyTable,
               <<73>> :> 2,
               (<<73>> :> -2) @@ (<<32>> :> 3)}}

InitMeasure ==
    /\ font \in TextFonts
    /\ text \in Texts
    /\ IdleMeasure /\ IdleKeys /\ IdleWrap /\ IdleDraw /\ IdleApp

Measure ==
    /\ ~measured
    /\ bounds' = measureText(font, text)
    /\ measured' = TRUE
    /\ UNCHANGED <<keyVars, textVars, wrapVars, drawVars, appVars>>

NextMeasure == Measure

SpecMeasure == InitMeasure /\ [][NextMeasure]_vars

\* the maxWidth arguments: finite widths and Infinity
MaxWidths == {Finite(0), Finite(4), Finite(10), Infinity}

InitWrap ==
    /\ font \in TextFonts
    /\ text \in Texts
    /\ maxWidth \in MaxWidths
    /\ wpc = "call" /\ words = <<>> /\ wordIndex = 1
    /\ line = <<>> /\ width = 0 /\ lines = <<>>
    /\ IdleKeys /\ IdleMeasure /\ IdleDraw /\ IdleApp

\* lines 485-489: the locals are initialised and the text is split
WrapCall ==
    /\ wpc = "call"
    /\ words' = Split(text)
    /\ wordIndex' = 1
    /\ line' = <<>> /\ width' = 0 /\ lines' = <<>>
    /\ wpc' = "loop"
    /\ UNCHANGED <<keyVars, textVars, measureVars, drawVars, appVars, maxWidth>>

\* one iteration of the for loop
WrapIterate ==
    /\ wpc = "loop" /\ wordIndex <= Len(words)
    /\ LET st == wrapToken(font, maxWidth,
                           [line |-> line, width |-> width, lines |-> lines],
                           words[wordIndex])
       IN  line' = st.line /\ width' = st.width /\ lines' = st.lines
    /\ wordIndex' = wordIndex + 1
    /\ UNCHANGED <<keyVars, textVars, measureVars, drawVars, appVars, maxWidth, wpc, words>>

\* lines 518-524: the last line is trimmed, pushed if not empty, and the
\* lines are returned
WrapReturn ==
    /\ wpc = "loop" /\ wordIndex > Len(words)
    /\ lines' = wrapFinish([line |-> line, width |-> width, lines |-> lines])
    /\ line' = Trim(line)
    /\ wpc' = "done"
    /\ UNCHANGED <<keyVars, textVars, measureVars, drawVars, appVars, maxWidth, words, wordIndex, width>>

NextWrap == WrapCall \/ WrapIterate \/ WrapReturn

SpecWrap == InitWrap /\ [][NextWrap]_vars

-----------------------------------------------------------------------------
(* Calls of drawText *)

\* the characters of the drawn texts: "a", "I" and "\n"
DrawAlphabet == {97, 73, NEWLINE}

DrawTexts == UNION {[1..n -> DrawAlphabet] : n \in 0..MaxTextLen}

\* the scenario's 5x8 font on the 80 pixel wide texture; the same with an
\* advance, an x offset and a y offset override; a 6x8 font, whose glyph width
\* does not divide the texture width
DrawFonts ==
    {Font(fontImage, BaseSettings),
     Font(fontImage, [glyphWidth |-> 5, glyphHeight |-> 8, lineHeight |-> 9,
                      startCharCode |-> 32,
                      advanceWidths |-> <<73>> :> 2,
                      xOffsets |-> <<73>> :> 1,
                      yOffsets |-> <<97>> :> -1]),
     Font(fontImage, [glyphWidth |-> 6, glyphHeight |-> 8])}

InitDraw ==
    /\ font \in DrawFonts
    /\ text \in DrawTexts
    /\ \E o \in {<<0, 0>>, <<3, 2>>} : originX = o[1] /\ originY = o[2]
    /\ color \in {"", "red"}
    /\ dpc = "loop" /\ charIndex = 1
    /\ tx = originX /\ ty = originY
    /\ calls = <<>>
    /\ IdleKeys /\ IdleMeasure /\ IdleWrap /\ IdleApp

\* one iteration of the for loop: the glyph is drawn, then the cursor moves
DrawGlyph ==
    /\ dpc = "loop" /\ charIndex <= Len(text)
    /\ LET code == text[charIndex]
           cur == MoveCursor(font, originX, [tx |-> tx, ty |-> ty], code)
       IN  /\ calls' = Append(calls, DrawImageCall(font, color, code,
                                                    [tx |-> tx, ty |-> ty]))
           /\ font' = IF color # "" THEN getColoredTexture(font, color).font
                      ELSE font
           /\ tx' = cur.tx /\ ty' = cur.ty
    /\ charIndex' = charIndex + 1
    /\ UNCHANGED <<keyVars, measureVars, wrapVars, appVars, text, originX, originY, color, dpc>>

DrawReturn ==
    /\ dpc = "loop" /\ charIndex > Len(text)
    /\ dpc' = "done"
    /\ UNCHANGED <<keyVars, textVars, measureVars, wrapVars, appVars,
                   originX, originY, color, charIndex, tx, ty, calls>>

NextDraw == DrawGlyph \/ DrawReturn

SpecDraw == InitDraw /\ [][NextDraw]_vars

-----------------------------------------------------------------------------
(* The editor: start-up, key events, inputs, setter calls, paste and drop *)

\* the keyboard events given to handleKeyDown
Keys == {"ArrowLeft", "ArrowRight", "ArrowUp", "ArrowDown", "h", "J", "a"}
KeyEvents ==
    [key : Keys, shiftKey : BOOLEAN, altKey : BOOLEAN, metaKey : BOOLEAN,
     target : {"BODY"}]
    \cup [key : {"ArrowLeft"}, shiftKey : BOOLEAN, altKey : {FALSE},
          metaKey : {FALSE}, target : {"TEXTAREA"}]
    \cup [key : {"N", "e"}, shiftKey : {TRUE}, altKey : {FALSE},
          metaKey : {FALSE}, target : {"BODY"}]

\* the character codes and values given to direct calls of the setters
EditCodes == {32, 37}
SetValues == {0, 5}

\* the text typed into the preview textarea: "% I"
PreviewTexts == {<<37, 32, 73>>}

\* the values typed into the glyph width and glyph height inputs (min="0")
GlyphSizes == {0}

\* the images pasted or dropped
PastedImages == {"data:same", "data:square"}

\* what localStorage.snapshot may hold when the page opens: a snapshot saved
\* by unmount() of a font with a pasted texture, and one of an older version
SavedFont ==
    [Font(Decoded("data:same"),
          [glyphWidth |-> 5, glyphHeight |-> 8, lineHeight |-> 10,
           advanceWidths |-> CodeKeyed(73 :> 2)])
        EXCEPT !.xOffsets = CodeKeyed(37 :> 1)]
SavedSnapshot ==
    getSnapshot(SavedFont, [DefaultPreview EXCEPT !.text = <<73>>, !.padding = 2])
StoredSnapshots == {SavedSnapshot, [SavedSnapshot EXCEPT !.version = 0]}

InitEditor ==
    /\ IdleKeys /\ IdleMeasure /\ IdleWrap /\ IdleDraw
    /\ text = <<>>
    /\ font = AppFont
    /\ NewApp
    /\ localStorage \in {{}} \cup {{s} : s \in StoredSnapshots}
    /\ steps = 0

\* this.renderPreview(), or the x-effect of the preview canvas running it,
\* for the font f and the preview settings p
RenderPreview(f, p) ==
    /\ font' = renderPreview(f, p).font
    /\ previewCanvas' = renderPreview(f, p).canvas
    /\ rendered' = rendering(f, p)

\* this.showPopup(message)
ShowPopup(message) ==
    /\ popupMessage' = message
    /\ popupMessageVisible' = TRUE

\* a setter or key has written into the font's tables: when these are
\* emptySnapshot's own objects, emptySnapshot shows the same tables
WriteTables(f) ==
    emptySnapshot' =
        IF shared
        THEN [emptySnapshot EXCEPT !.advanceWidths = f.advanceWidths,
                                   !.xOffsets = f.xOffsets,
                                   !.yOffsets = f.yOffsets,
                                   !.codepage = f.codepage]
        ELSE emptySnapshot

\* a loadSnapshot(emptySnapshot) that has reached its await
LoadOfEmptySnapshot == [from |-> "empty", mount |-> FALSE, issued |-> steps]

\* App.mount() up to its first await; loadSnapshot(snapshot) up to its await
\* is part of it
Mount ==
    /\ mpc = "constructed"
    /\ IF localStorage = {}
       THEN /\ mpc' = IF fontImageDecoded THEN "mounted" ELSE "awaitingDecode"
            /\ UNCHANGED <<loading, issuedLast, popupVars>>
       ELSE \E snapshot \in localStorage :
              IF versionAccepted(snapshot)
              THEN /\ loading' = loading \cup
                         {[from |-> "stored", mount |-> TRUE, issued |-> steps]}
                   /\ issuedLast' = snapshot.textureUrl
                   /\ mpc' = "awaitingLoad"
                   /\ UNCHANGED popupVars
              ELSE /\ ShowPopup("Could not load saved font!")
                   /\ mpc' = "mounted"
                   /\ UNCHANGED <<loading, issuedLast>>
    /\ UNCHANGED <<keyVars, textVars, measureVars, wrapVars, drawVars,
                   selectedCharCode, previewText, previewVars, previewCanvas,
                   steps, rendered, localStorage, emptySnapshot, shared,
                   fontImageDecoded, pasting, clipboard>>

\* the decode of fontImage resolves: the canvases getColoredTexture left
\* waiting are drawn, and mount() goes on if it awaited this
FontImageDecoded ==
    /\ ~fontImageDecoded
    /\ fontImageDecoded' = TRUE
    /\ font' = decodedFont(font)
    /\ mpc' = IF mpc = "awaitingDecode" THEN "mounted" ELSE mpc
    /\ UNCHANGED <<keyVars, text, measureVars, wrapVars, drawVars,
                   selectedCharCode, previewText, previewVars, previewCanvas,
                   steps, rendered, popupVars, localStorage, emptySnapshot,
                   shared, loading, pasting, issuedLast, clipboard>>

\* app.js lines 535-554: texture.decode() of a loadSnapshot call resolves and
\* the call assigns the snapshot; the preview is rendered again by its
\* x-effect
LoadSnapshotResumes(load) ==
    /\ load \in loading
    /\ LET snapshot == IF load.from = "empty" THEN emptySnapshot
                       ELSE CHOOSE s \in localStorage : TRUE
       IN  /\ previewText' = snapshot.previewText
           /\ previewForegroundColor' = snapshot.previewForegroundColor
           /\ previewBackgroundColor' = snapshot.previewBackgroundColor
           /\ previewStrokeColor' = snapshot.previewStrokeColor
           /\ previewStrokeBits' = snapshot.previewStrokeBits
           /\ previewPadding' = snapshot.previewPadding
           /\ previewCanvasWidth' = snapshot.previewCanvasWidth
           /\ previewBackgroundTransparency' = snapshot.previewBackgroundTransparency
           /\ previewTextWrappingEnabled' = snapshot.previewTextWrappingEnabled
           /\ RenderPreview(loadedFont(font, snapshot), loadedPreview(snapshot))
    /\ shared' = (load.from = "empty")
    /\ loading' = loading \ {load}
    /\ mpc' = IF load.mount THEN "mounted" ELSE mpc
    /\ UNCHANGED <<keyVars, text, measureVars, wrapVars, drawVars,
                   selectedCharCode, steps, popupVars, localStorage,
                   emptySnapshot, fontImageDecoded, pasting, issuedLast,
                   clipboard>>

\* the timeout of showPopup
PopupTimeout ==
    /\ popupMessageVisible
    /\ popupMessageVisible' = FALSE
    /\ UNCHANGED <<keyVars, textVars, measureVars, wrapVars, drawVars,
                   selectedCharCode, previewText, previewVars, previewCanvas,
                   steps, rendered, popupMessage, loadVars, clipboard>>

\* App.createNewFont() with the answer given to confirm()
CreateNewFont(confirmed) ==
    IF confirmed
    THEN /\ IF versionAccepted(emptySnapshot)
            THEN /\ loading' = loading \cup {LoadOfEmptySnapshot}
                 /\ issuedLast' = emptySnapshot.textureUrl
            ELSE UNCHANGED <<loading, issuedLast>>
         /\ ShowPopup("Created new font!")
    ELSE UNCHANGED <<loading, issuedLast, popupVars>>

\* App.exportJavaScript()
ExportJavaScript ==
    /\ clipboard' = exportedSettings(font)
    /\ ShowPopup("Copied to clipboard!")

\* App.handleKeyDown(event), the renderPreview() that ends it included
HandleKeyDown ==
    /\ mpc # "constructed"
    /\ steps < MaxSteps
    /\ \E event \in KeyEvents :
         IF shouldIgnoreKeyEvent(event)
         THEN UNCHANGED <<font, selectedCharCode, previewCanvas, rendered,
                          popupVars, emptySnapshot, loading, issuedLast,
                          clipboard>>
         ELSE IF IsNewFontKey(event)
         THEN /\ \E confirmed \in BOOLEAN : CreateNewFont(confirmed)
              /\ RenderPreview(font, Preview)
              /\ UNCHANGED <<selectedCharCode, emptySnapshot, clipboard>>
         ELSE IF IsExportKey(event)
         THEN /\ ExportJavaScript
              /\ RenderPreview(font, Preview)
              /\ UNCHANGED <<selectedCharCode, emptySnapshot, loading,
                             issuedLast>>
         ELSE /\ selectedCharCode' = KeySelection(selectedCharCode, event)
              /\ RenderPreview(KeyFont(font, selectedCharCode, event), Preview)
              /\ WriteTables(KeyFont(font, selectedCharCode, event))
              /\ UNCHANGED <<popupVars, loading, issuedLast, clipboard>>
    /\ steps' = steps + 1
    /\ UNCHANGED <<keyVars, text, measureVars, wrapVars, drawVars, previewText,
                   previewVars, localStorage, shared, mpc, fontImageDecoded,
                   pasting>>

\* a click on the New button: createNewFont()
ClickNew ==
    /\ mpc # "constructed"
    /\ steps < MaxSteps
    /\ \E confirmed \in BOOLEAN : CreateNewFont(confirmed)
    /\ steps' = steps + 1
    /\ UNCHANGED <<keyVars, textVars, measureVars, wrapVars, drawVars,
                   selectedCharCode, previewText, previewVars, previewCanvas,
                   rendered, localStorage, emptySnapshot, shared, mpc,
                   fontImageDecoded, pasting, clipboard>>

\* a click on the Export button: exportJavaScript()
ClickExport ==
    /\ mpc # "constructed"
    /\ steps < MaxSteps
    /\ ExportJavaScript
    /\ steps' = steps + 1
    /\ UNCHANGED <<keyVars, textVars, measureVars, wrapVars, drawVars,
                   selectedCharCode, previewText, previewVars, previewCanvas,
                   rendered, loadVars>>

\* a call of App.setXOffset(charCode, value)
SetXOffsetCall(charCode, value) ==
    /\ mpc # "constructed"
    /\ steps < MaxSteps
    /\ font' = setXOffset(font, charCode, value)
    /\ WriteTables(setXOffset(font, charCode, value))
    /\ steps' = steps + 1
    /\ UNCHANGED <<keyVars, text, measureVars, wrapVars, drawVars,
                   selectedCharCode, previewText, previewVars, previewCanvas,
                   rendered, popupVars, localStorage, shared, mpc,
                   fontImageDecoded, loading, pasting, issuedLast,
                   clipboard>>

\* a call of App.setYOffset(charCode, value)
SetYOffsetCall(charCode, value) ==
    /\ mpc # "constructed"
    /\ steps < MaxSteps
    /\ font' = setYOffset(font, charCode, value)
    /\ WriteTables(setYOffset(font, charCode, value))
    /\ steps' = steps + 1
    /\ UNCHANGED <<keyVars, text, measureVars, wrapVars, drawVars,
                   selectedCharCode, previewText, previewVars, previewCanvas,
                   rendered, popupVars, localStorage, shared, mpc,
                   fontImageDecoded, loading, pasting, issuedLast,
                   clipboard>>

\* a call of App.setAdvanceWidth(charCode, value)
SetAdvanceWidthCall(charCode, value) ==
    /\ mpc # "constructed"
    /\ steps < MaxSteps
    /\ font' = setAdvanceWidth(font, charCode, value)
    /\ WriteTables(setAdvanceWidth(font, charCode, value))
    /\ steps' = steps + 1
    /\ UNCHANGED <<keyVars, text, measureVars, wrapVars, drawVars,
                   selectedCharCode, previewText, previewVars, previewCanvas,
                   rendered, popupVars, localStorage, shared, mpc,
                   fontImageDecoded, loading, pasting, issuedLast,
                   clipboard>>

\* typing into the preview textarea (x-model="previewText"); the x-effect of
\* the preview canvas renders the preview again
InputPreviewText ==
    /\ mpc # "constructed"
    /\ steps < MaxSteps
    /\ \E t \in PreviewTexts :
         /\ previewText' = t
         /\ RenderPreview(font, [Preview EXCEPT !.text = t])
    /\ steps' = steps + 1
    /\ UNCHANGED <<keyVars, text, measureVars, wrapVars, drawVars,
                   selectedCharCode, previewVars, popupVars, loadVars, clipboard>>

\* typing into the glyph width input (x-model.number="font.glyphWidth"); the
\* x-effect of the preview canvas renders the preview again
InputGlyphWidth ==
    /\ mpc # "constructed"
    /\ steps < MaxSteps
    /\ \E v \in GlyphSizes : RenderPreview([font EXCEPT !.glyphWidth = v], Preview)
    /\ steps' = steps + 1
    /\ UNCHANGED <<keyVars, text, measureVars, wrapVars, drawVars,
                   selectedCharCode, previewText, previewVars, popupVars,
                   loadVars, clipboard>>

\* typing into the glyph height input (x-model.number="font.glyphHeight")
InputGlyphHeight ==
    /\ mpc # "constructed"
    /\ steps < MaxSteps
    /\ \E v \in GlyphSizes : RenderPreview([font EXCEPT !.glyphHeight = v], Preview)
    /\ steps' = steps + 1
    /\ UNCHANGED <<keyVars, text, measureVars, wrapVars, drawVars,
                   selectedCharCode, previewText, previewVars, popupVars,
                   loadVars, clipboard>>

\* app.js lines 172-202: a paste or a drop of an image file, up to the first
\* await of the handler (mount() adds the handlers when it is through)
PasteOrDrop ==
    /\ mpc = "mounted"
    /\ steps < MaxSteps
    /\ \E src \in PastedImages :
         /\ pasting' = pasting \cup {[image |-> src, issued |-> steps]}
         /\ issuedLast' = src
    /\ steps' = steps + 1
    /\ UNCHANGED <<keyVars, textVars, measureVars, wrapVars, drawVars,
                   selectedCharCode, previewText, previewVars, previewCanvas,
                   rendered, popupVars, localStorage, emptySnapshot, shared,
                   mpc, fontImageDecoded, loading, clipboard>>

\* the texture of a paste or drop has been created and decoded and the
\* handler calls setTexture(texture); when this.font is replaced the preview
\* is rendered again by its x-effect
PasteResumes(paste) ==
    /\ paste \in pasting
    /\ pasting' = pasting \ {paste}
    /\ \E confirmed \in BOOLEAN :
         /\ IF replacesFont(font, Decoded(paste.image), confirmed)
            THEN /\ RenderPreview(setTexture(font, Decoded(paste.image), confirmed),
                                  Preview)
                 /\ shared' = FALSE
            ELSE UNCHANGED <<font, previewCanvas, rendered, shared>>
         /\ IF createsFont(font, Decoded(paste.image), confirmed)
            THEN ShowPopup("Created new font!")
            ELSE UNCHANGED popupVars
    /\ UNCHANGED <<keyVars, text, measureVars, wrapVars, drawVars,
                   selectedCharCode, previewText, previewVars, steps,
                   localStorage, emptySnapshot, mpc, fontImageDecoded, loading,
                   issuedLast, clipboard>>

NextEditor ==
    \/ Mount
    \/ FontImageDecoded
    \/ \E load \in loading : LoadSnapshotResumes(load)
    \/ \E paste \in pasting : PasteResumes(paste)
    \/ PopupTimeout
    \/ HandleKeyDown
    \/ ClickNew
    \/ ClickExport
    \/ \E c \in EditCodes, v \in SetValues : SetXOffsetCall(c, v)
    \/ \E c \in EditCodes, v \in SetValues : SetYOffsetCall(c, v)
    \/ \E c \in EditCodes, v \in SetValues : SetAdvanceWidthCall(c, v)
    \/ InputPreviewText
    \/ InputGlyphWidth
    \/ InputGlyphHeight
    \/ PasteOrDrop

SpecEditor == InitEditor /\ [][NextEditor]_vars

-----------------------------------------------------------------------------
(* Calls of renderPreview *)

\* the stroke masks of the stroke bits input (min="0" max="255")
StrokeMasks == 0..255

\* the preview texts: "", " ", "I", "A I" and "A\nI"
RenderTexts == {<<>>, <<SPACE>>, <<73>>, <<65, SPACE, 73>>, <<65, NEWLINE, 73>>}

\* the preview widths: the initial one, and one that holds a single glyph
RenderWidths == {300, 8}

\* a canvas element nothing has been drawn to
BlankCanvas ==
    [width |-> 300, height |-> 150, background |-> "", passes |-> <<>>,
     threw |-> FALSE]

InitRender ==
    /\ IdleKeys /\ IdleMeasure /\ IdleWrap /\ IdleDraw
    /\ text = <<>>
    /\ font = decodedFont(AppFont)
    /\ selectedCharCode = 32
    /\ previewText \in RenderTexts
    /\ previewForegroundColor = "#000000"
    /\ previewBackgroundColor = "#ffffff"
    /\ previewBackgroundTransparency = FALSE
    /\ previewStrokeColor = "#ff0000"
    /\ previewStrokeBits \in StrokeMasks
    /\ previewPadding = 1
    /\ previewCanvasWidth \in RenderWidths
    /\ previewTextWrappingEnabled \in BOOLEAN
    /\ previewCanvas = BlankCanvas
    /\ rendered = [glyphWidth |-> 5, glyphHeight |-> 8, sources |-> {}]
    /\ popupMessage = "" /\ popupMessageVisible = FALSE
    /\ localStorage = {}
    /\ emptySnapshot = DefaultSnapshot
    /\ shared = FALSE
    /\ mpc = "mounted"
    /\ fontImageDecoded = TRUE
    /\ loading = {} /\ pasting = {}
    /\ issuedLast = ""
    /\ clipboard = <<>>
    /\ steps = 0

\* a call of App.renderPreview()
RenderPreviewCall ==
    /\ steps = 0
    /\ RenderPreview(font, Preview)
    /\ steps' = 1
    /\ UNCHANGED <<keyVars, text, measureVars, wrapVars, drawVars,
                   selectedCharCode, previewText, previewVars, popupVars,
                   loadVars, clipboard>>

NextRender == RenderPreviewCall

SpecRender == InitRender /\ [][NextRender]_vars

-----------------------------------------------------------------------------
(* What the claims about measureText and wrapText speak of *)

\* the positions of the line breaks of a string
LineBreaks(t) == {i \in 1..Len(t) : t[i] = NEWLINE}

\* the segments of a string between its line breaks, in order
RECURSIVE Segments(_)
Segments(t) ==
    IF LineBreaks(t) = {} THEN <<t>>
    ELSE LET i == CHOOSE p \in LineBreaks(t) : \A q \in LineBreaks(t) : p <= q
         IN  <<SubSeq(t, 1, i - 1)>> \o Segments(SubSeq(t, i + 1, Len(t)))

\* the sum of the advances of the characters of a string
RECURSIVE SumAdvance(_, _)
SumAdvance(f, t) ==
    IF t = <<>> THEN 0 ELSE advance(f, Head(t)) + SumAdvance(f, Tail(t))

\* the greatest number of a non-empty finite set
Greatest(S) == CHOOSE m \in S : \A n \in S : n <= m

\* the maximal runs of characters that are not white space, in order
RECURSIVE WordsOf(_)
WordsOf(t) ==
    IF t = <<>> THEN <<>>
    ELSE IF Head(t) \in WhiteSpace THEN WordsOf(Tail(t))
    ELSE LET n == CHOOSE m \in 1..Len(t) :
                      /\ \A i \in 1..m : t[i] \notin WhiteSpace
                      /\ m = Len(t) \/ t[m + 1] \in WhiteSpace
         IN  <<SubSeq(t, 1, n)>> \o WordsOf(SubSeq(t, n + 1, Len(t)))

\* the words of a sequence of lines, read line after line
RECURSIVE WordsOfLines(_)
WordsOfLines(ls) ==
    IF ls = <<>> THEN <<>> ELSE WordsOf(Head(ls)) \o WordsOfLines(Tail(ls))

IsWord(t) == t # <<>> /\ \A i \in 1..Len(t) : t[i] \notin WhiteSpace
OnlySpaces(t) == \A i \in 1..Len(t) : t[i] = SPACE
OnlySpacesAndBreaks(t) == \A i \in 1..Len(t) : t[i] \in {SPACE, NEWLINE}

\* the font of the README and of the measuring scenario: 5x8, line height 9,
\* "I" advancing 2
ScenarioFont == Font(fontImage, SettingsWith("advanceWidths", <<73>> :> 2))

\* C7: measureText returns as width the greatest of 0 and the sums of the
\* advances of the lines between the line breaks, and as height one line
\* height per line (one more than the line breaks); the empty string measures
\* {0, lineHeight} and "AI" with "I" advancing 2 measures {7, 9}.
C7_MeasureText ==
    measured =>
        /\ bounds.width =
              Greatest({0} \cup {SumAdvance(font, Segments(text)[k]) :
                                    k \in 1..Len(Segments(text))})
        /\ bounds.height = (1 + Cardinality(LineBreaks(text))) * font.lineHeight
        /\ text = <<>> => bounds = [width |-> 0, height |-> font.lineHeight]
        /\ (font = ScenarioFont /\ text = <<65, 73>>) =>
              bounds = [width |-> 7, height |-> 9]

\* C7 witness: "AI" has been measured with the scenario font.
C7_Witness ==
    /\ measured /\ font = ScenarioFont /\ text = <<65, 73>>
    /\ bounds.width = 7

\* C2 as stated: with maxWidth = Infinity there is one output line per
\* segment of the text between line breaks, each equal to its segment up to
\* trimming, also when the text ends with a line break.
C2_OneLinePerSegment ==
    (wpc = "done" /\ maxWidth = Infinity) =>
        /\ Len(lines) = Len(Segments(text))
        /\ \A k \in 1..Len(lines) : Trim(lines[k]) = Trim(Segments(text)[k])

\* C2 amended: with maxWidth = Infinity the output is the segments before the
\* last line break, as they are, followed by the trimmed last segment unless
\* that is empty (a text ending in a line break, or in a line break and white
\* space, gives one line fewer than segments).
C2_SplitsOnLineBreaks ==
    (wpc = "done" /\ maxWidth = Infinity) =>
        LET segs == Segments(text)
            n == Len(segs)
        IN  lines = SubSeq(segs, 1, n - 1) \o
                    (IF Trim(segs[n]) = <<>> THEN <<>> ELSE << Trim(segs[n]) >>)

\* C2 witness: "A\n" wrapped with Infinity gave the single line "A", and a
\* text with a break inside gave two lines.
C2_Witness ==
    /\ wpc = "done" /\ maxWidth = Infinity
    /\ text = <<65, NEWLINE>> /\ lines = << <<65>> >>

\* C3 as stated: a word that starts the text is never preceded by a flushed
\* empty line, so a text that is one word wraps to exactly that word, however
\* wide it is.
C3_SingleWordAlone ==
    (wpc = "done" /\ IsWord(text)) => lines = <<text>>

\* C4 as stated: for every maxWidth >= 0 a text of spaces and line breaks only
\* (or the empty text) wraps to no line at all.
C4_WhitespaceGivesNoLines ==
    (wpc = "done" /\ OnlySpacesAndBreaks(text)) => lines = <<>>

\* C4 amended: a text of spaces and line breaks only wraps to lines made of
\* spaces only, at least one per line break and exactly one per line break
\* when no run of spaces between breaks is wider than maxWidth; so the empty
\* text, and spaces no wider than maxWidth, wrap to no line at all.
C4_WhitespaceGivesBlankLines ==
    (wpc = "done" /\ OnlySpacesAndBreaks(text)) =>
        /\ \A k \in 1..Len(lines) : OnlySpaces(lines[k])
        /\ Len(lines) >= Cardinality(LineBreaks(text))
        /\ (\A k \in 1..Len(Segments(text)) :
                ~GreaterThan(SumAdvance(font, Segments(text)[k]), maxWidth))
            => Len(lines) = Cardinality(LineBreaks(text))
        /\ text = <<>> => lines = <<>>

\* C4 witness: a text of one space and two line breaks wrapped to two blank
\* lines.
C4_Witness ==
    /\ wpc = "done" /\ text = <<SPACE, NEWLINE, NEWLINE>>
    /\ lines = << <<SPACE>>, <<>> >>

\* C8: the words of the output lines, read in order, are the words of the
\* input: no word is split, dropped, duplicated or reordered.
C8_WordsPreserved ==
    wpc = "done" => WordsOfLines(lines) = WordsOf(text)

\* C8 witness: a text of two words too wide for one line was wrapped onto two
\* lines.
C8_Witness ==
    /\ wpc = "done" /\ text = <<65, 73, SPACE, 73>>
    /\ maxWidth = Finite(10) /\ Len(lines) = 2

-----------------------------------------------------------------------------
(* What the claims about drawText speak of *)

\* the position of the last line break before character k, 0 if none
LastBreakBefore(k) ==
    Greatest({0} \cup {i \in 1..(k - 1) : i <= Len(text) /\ text[i] = NEWLINE})

\* the cursor before character k is drawn: x restarts at the origin after
\* each line break and grows by the advances since; y grows by one line
\* height per line break
CursorX(k) ==
    originX + SumAdvance(font, SubSeq(text, LastBreakBefore(k) + 1, k - 1))
CursorY(k) ==
    originY + font.lineHeight *
        Cardinality({i \in 1..(k - 1) : i <= Len(text) /\ text[i] = NEWLINE})

\* index = charCode - startCharCode and columnsPerRow of the drawing font
IndexOf(code) == code - font.startCharCode
ColumnsPerRow == font.texture.width \div font.glyphWidth

\* C5 as stated: every source rectangle drawText reads is (column *
\* glyphWidth, row * glyphHeight, glyphWidth, glyphHeight) with column =
\* index mod columnsPerRow and row = floor(index / columnsPerRow), also for
\* codes below startCharCode.
C5_SourceCellFloorMod ==
    \A k \in 1..Len(calls) :
        /\ calls[k].sx = (IndexOf(text[k]) % ColumnsPerRow) * font.glyphWidth
        /\ calls[k].sy = (IndexOf(text[k]) \div ColumnsPerRow) * font.glyphHeight
        /\ calls[k].sw = font.glyphWidth
        /\ calls[k].sh = font.glyphHeight

\* C5 amended: for a font with at least one column per row, the source
\* rectangle is as stated for every code at or above startCharCode; for a code
\* below startCharCode column and row are the remainder and the quotient of
\* index by columnsPerRow truncated toward zero (both <= 0), not the floor
\* and the non-negative modulus.  Glyph 5x8, start 32, texture width 80, code
\* 97 gives (5, 32, 5, 8).
C5_SourceCell ==
    \A k \in 1..Len(calls) :
        LET index == IndexOf(text[k])
            column == IF index >= 0 THEN index % ColumnsPerRow
                      ELSE -((-index) % ColumnsPerRow)
            row == IF index >= 0 THEN index \div ColumnsPerRow
                   ELSE -((-index) \div ColumnsPerRow)
        IN  /\ calls[k].sx = column * font.glyphWidth
            /\ calls[k].sy = row * font.glyphHeight
            /\ calls[k].sw = font.glyphWidth
            /\ calls[k].sh = font.glyphHeight
            /\ (text[k] = 97 /\ font.glyphWidth = 5 /\ font.glyphHeight = 8
                /\ font.startCharCode = 32 /\ font.texture.width = 80)
               => <<calls[k].sx, calls[k].sy, calls[k].sw, calls[k].sh>>
                    = <<5, 32, 5, 8>>

\* C5 witness: "a" and a line break (code 10, below startCharCode 32) have
\* been drawn with the 5x8 font: cells (5, 32) and (-30, -8).
C5_Witness ==
    /\ dpc = "done" /\ text = <<97, NEWLINE>> /\ font.glyphWidth = 5
    /\ calls[1].sx = 5 /\ calls[1].sy = 32
    /\ calls[2].sx = -30 /\ calls[2].sy = -8

\* C9: drawText issues one draw call per character, in text order; the k-th
\* call draws the cell of the k-th character at the cursor plus that
\* character's offsets, where the cursor starts at (x, y), moves right by the
\* advance after a character that is no line break, and returns to x one line
\* height lower after a line break; the offsets never move the cursor.
C9_DrawCalls ==
    /\ dpc \in {"loop", "done"} => Len(calls) = charIndex - 1
    /\ dpc = "done" => Len(calls) = Len(text)
    /\ \A k \in 1..Len(calls) :
        /\ calls[k].dx = CursorX(k) + xOffsetOf(font, text[k])
        /\ calls[k].dy = CursorY(k) + yOffsetOf(font, text[k])
        /\ <<calls[k].sx, calls[k].sy>> =
              <<SourceCell(font, text[k]).sx, SourceCell(font, text[k]).sy>>
    /\ dpc \in {"loop", "done"} =>
          tx = CursorX(charIndex) /\ ty = CursorY(charIndex)

\* C9 witness: "I", a line break and "a" have been drawn from (3, 2) with the
\* font whose "I" has an x offset and whose "a" has a y offset.
C9_Witness ==
    /\ dpc = "done" /\ text = <<73, NEWLINE, 97>>
    /\ originX = 3 /\ originY = 2
    /\ xOffsetOf(font, 73) = 1
    /\ calls[1].dx = 4 /\ calls[2].dx = 5
    /\ calls[3].dx = 3 /\ calls[3].dy = 10

\* every code unit a string of the model can hold
AllCodes == 0..127

\* C1: for every mapping set, the Font built from the character-keyed table
\* and the Font built from the code-keyed table give the same advance, x
\* offset and y offset for every character code.
C1_SameMetricsForEitherKeying ==
    built = {"chars", "codes"} =>
        \A c \in AllCodes :
            /\ advance(charFont, c) = advance(codeFont, c)
            /\ xOffsetOf(charFont, c) = xOffsetOf(codeFont, c)
            /\ yOffsetOf(charFont, c) = yOffsetOf(codeFont, c)

-----------------------------------------------------------------------------
(* What the claims about the editor speak of *)

\* table has an entry for the character code
HasEntry(table, code) == NumberToString(code) \in DOMAIN table

\* the entry of every code but c is the same in the tables t1 and t2
OthersUnchanged(t1, t2, c) ==
    \A k \in (DOMAIN t1 \cup DOMAIN t2) \ {NumberToString(c)} :
        k \in DOMAIN t1 /\ k \in DOMAIN t2 /\ t1[k] = t2[k]

\* C6: after any sequence of editor operations the override tables stay
\* minimal: xOffsets and yOffsets hold no entry equal to 0 and advanceWidths
\* holds no entry equal to the current glyphWidth.
C6_TablesStayMinimal ==
    /\ \A k \in DOMAIN font.xOffsets : font.xOffsets[k] # 0
    /\ \A k \in DOMAIN font.yOffsets : font.yOffsets[k] # 0
    /\ \A k \in DOMAIN font.advanceWidths : font.advanceWidths[k] # font.glyphWidth

\* C10: for every character code c and value v, after setAdvanceWidth(c, v)
\* advance(c) is v and advanceWidths has an entry for c iff v is not the
\* glyph width (for setXOffset and setYOffset: the offset is v and the entry
\* is there iff v is not 0); the entry of every other code is unchanged, and
\* the same call made again leaves the same table.
C10_SetterResult ==
    [][\A c \in EditCodes, v \in SetValues :
        /\ SetAdvanceWidthCall(c, v) =>
            /\ advance(font', c) = v
            /\ HasEntry(font'.advanceWidths, c) <=> v # font.glyphWidth
            /\ OthersUnchanged(font.advanceWidths, font'.advanceWidths, c)
            /\ setAdvanceWidth(font', c, v) = font'
        /\ SetXOffsetCall(c, v) =>
            /\ xOffsetOf(font', c) = v
            /\ HasEntry(font'.xOffsets, c) <=> v # 0
            /\ OthersUnchanged(font.xOffsets, font'.xOffsets, c)
            /\ setXOffset(font', c, v) = font'
        /\ SetYOffsetCall(c, v) =>
            /\ yOffsetOf(font', c) = v
            /\ HasEntry(font'.yOffsets, c) <=> v # 0
            /\ OthersUnchanged(font.yOffsets, font'.yOffsets, c)
            /\ setYOffset(font', c, v) = font'
      ]_vars

\* a setter call has removed the entry advanceWidths had for "%" and another
\* has given the space an x offset
C10_Witness ==
    /\ ~HasEntry(font.advanceWidths, 37)
    /\ font.glyphWidth = 5
    /\ xOffsetOf(font, 32) = 5

-----------------------------------------------------------------------------
(* measureText of a concatenation *)

\* the string holds no white space and no line break
NoWhiteSpace(t) == \A i \in 1..Len(t) : t[i] \notin WhiteSpace

\* the string cut after its k-th character
Before(t, k) == SubSeq(t, 1, k)
After(t, k) == SubSeq(t, k + 1, Len(t))

\* C11 as stated: for every font and any two strings a and b without white
\* space, measureText(a + b).width is measureText(a).width plus
\* measureText(b).width, and is the sum of the advances of the characters.
C11_WidthIsAdditive ==
    (measured /\ NoWhiteSpace(text)) =>
        \A k \in 0..Len(text) :
            /\ bounds.width = measureText(font, Before(text, k)).width
                              + measureText(font, After(text, k)).width
            /\ bounds.width = SumAdvance(font, text)

\* C11 amended: for two strings a and b without white space the width of
\* a + b is the sum of the advances of its characters, or 0 when that sum is
\* negative; it is the sum of the widths of a and b whenever neither a nor b
\* has a negative sum of advances (so always when no advance is negative).
C11_WidthIsAdditiveAboveZero ==
    (measured /\ NoWhiteSpace(text)) =>
        /\ bounds.width = Max(0, SumAdvance(font, text))
        /\ \A k \in 0..Len(text) :
              (/\ SumAdvance(font, Before(text, k)) >= 0
               /\ SumAdvance(font, After(text, k)) >= 0) =>
                  /\ bounds.width = measureText(font, Before(text, k)).width
                                    + measureText(font, After(text, k)).width
                  /\ bounds.width = SumAdvance(font, text)

\* C11 witness: "AIA" has been measured with "I" advancing 2: 12 = 5 + 7.
C11_Witness ==
    /\ measured /\ text = <<65, 73, 65>> /\ advance(font, 73) = 2
    /\ bounds.width = 12
    /\ measureText(font, <<65>>).width + measureText(font, <<73, 65>>).width = 12

-----------------------------------------------------------------------------
(* What the claims about snapshots, textures and the preview speak of *)

\* the snapshot found in localStorage has another version than the current
StoredVersionDiffers == \E s \in localStorage : s.version # snapshotVersion

\* C12: loadSnapshot of a snapshot whose version differs from the current one
\* rejects it wholesale: until the user acts, the font's metrics, override
\* tables and texture and the preview settings are those of the new App, no
\* load is under way, and only the popup message is shown.
C12_RejectsOtherVersion ==
    (StoredVersionDiffers /\ mpc # "constructed" /\ steps = 0) =>
        /\ font \in {AppFont, decodedFont(AppFont)}
        /\ Preview = DefaultPreview
        /\ emptySnapshot = DefaultSnapshot
        /\ loading = {}
        /\ popupMessage = "Could not load saved font!"

\* C12 witness: mount() has called loadSnapshot with the snapshot of another
\* version and is through, and the font image has been decoded since.
C12_Witness ==
    /\ StoredVersionDiffers /\ mpc = "mounted" /\ steps = 0
    /\ fontImageDecoded
    /\ popupMessage = "Could not load saved font!"

\* C13: the built-in default snapshot never shares its tables with the live
\* font: whatever createNewFont calls and override edits have happened, its
\* tables hold their initial contents.
C13_DefaultSnapshotKeepsItsTables ==
    /\ emptySnapshot.advanceWidths = DefaultSnapshot.advanceWidths
    /\ emptySnapshot.xOffsets = DefaultSnapshot.xOffsets
    /\ emptySnapshot.yOffsets = DefaultSnapshot.yOffsets
    /\ emptySnapshot.codepage = DefaultSnapshot.codepage

\* C14: renderPreview never calls into the core (wrapText, measureText,
\* drawText) with a font whose glyphWidth or glyphHeight is zero or negative.
C14_RendersOnlyPositiveSizes ==
    rendered.glyphWidth > 0 /\ rendered.glyphHeight > 0

\* C15: no draw call of drawText runs before the decode of the font's
\* current texture has completed.
C15_DrawsOnlyDecodedTextures ==
    \A s \in rendered.sources : s.decoded

\* C17: the recoloured texture a draw uses for a colour is derived from the
\* font's current texture, never from a texture loaded before it.
C17_ColoredTextureIsCurrent ==
    \A s \in rendered.sources : s.content \in {"", s.texture}

\* the number of bits set in a stroke mask
PopCount(bits) == Cardinality({b \in 0..7 : (bits \div (2 ^ b)) % 2 = 1})

\* the eight one-pixel offsets around a position
Compass == ({-1, 0, 1} \X {-1, 0, 1}) \ {<<0, 0>>}

\* the lines renderPreview wraps the preview text into
PreviewLines ==
    wrapText(font, previewText,
             IF previewTextWrappingEnabled
             THEN Finite(previewCanvasWidth - previewPadding * 2)
             ELSE Infinity)

\* the k-th drawText call of renderPreview for the line at position ln
PassOf(ln, k) == previewCanvas.passes[(ln - 1) * (PopCount(previewStrokeBits) + 1) + k]

\* the offset of a drawText call from the unshifted position of its line
OffsetOf(ln, k) ==
    <<PassOf(ln, k).x - previewPadding,
      PassOf(ln, k).y - (previewPadding + (ln - 1) * font.lineHeight)>>

\* C16: for each wrapped line and every stroke mask 0..255, renderPreview
\* calls drawText once per set bit of the mask with the stroke colour, each
\* at a distinct one-pixel offset among the eight compass directions, and
\* then exactly once with the foreground colour at the unshifted position;
\* the stroke passes of a line come before its foreground pass and all its
\* passes have the line's text.
C16_StrokePasses ==
    steps = 1 =>
        /\ Len(previewCanvas.passes)
              = Len(PreviewLines) * (PopCount(previewStrokeBits) + 1)
        /\ \A ln \in 1..Len(PreviewLines) :
              /\ \A k \in 1..PopCount(previewStrokeBits) :
                    /\ PassOf(ln, k).color = previewStrokeColor
                    /\ PassOf(ln, k).text = PreviewLines[ln]
                    /\ OffsetOf(ln, k) \in Compass
                    /\ \A j \in 1..PopCount(previewStrokeBits) :
                          j # k => OffsetOf(ln, j) # OffsetOf(ln, k)
              /\ PassOf(ln, PopCount(previewStrokeBits) + 1).color = previewForegroundColor
              /\ PassOf(ln, PopCount(previewStrokeBits) + 1).text = PreviewLines[ln]
              /\ OffsetOf(ln, PopCount(previewStrokeBits) + 1) = <<0, 0>>

\* C16 witness: "A I" has been rendered in two lines with all eight stroke
\* bits set: eighteen passes.
C16_Witness ==
    /\ steps = 1 /\ previewStrokeBits = 255
    /\ PreviewLines = <<<<65>>, <<73>>>>
    /\ Len(previewCanvas.passes) = 18

\* C18: renderPreview completes without raising an error for every preview
\* text and every setting of previewTextWrappingEnabled.
C18_RenderPreviewNeverThrows ==
    ~previewCanvas.threw

-----------------------------------------------------------------------------
(* The editor grid against drawText *)

\* C19: for every texture width, glyph size and character code at or above
\* startCharCode, the source cell (sx, sy) renderEditorGlyph draws for the
\* code is the source cell drawText uses for it, also when the texture width
\* is not a multiple of glyphWidth.
C19_GridCellIsDrawTextCell ==
    \A i \in 1..Len(calls) :
        text[i] >= font.startCharCode =>
            /\ renderEditorGlyph(font, text[i]).sx = calls[i].sx
            /\ renderEditorGlyph(font, text[i]).sy = calls[i].sy

-----------------------------------------------------------------------------
(* The running width of wrapText *)

\* no advance of the font is negative
NonNegativeAdvances(f) ==
    /\ f.glyphWidth >= 0
    /\ \A k \in DOMAIN f.advanceWidths : f.advanceWidths[k] >= 0

\* a string without the spaces at its end
RECURSIVE WithoutTrailingSpaces(_)
WithoutTrailingSpaces(t) ==
    IF t # <<>> /\ t[Len(t)] = SPACE
    THEN WithoutTrailingSpaces(SubSeq(t, 1, Len(t) - 1))
    ELSE t

\* the tokens of the loop that are neither a space nor a line break: the
\* words wrapText measures
IsWordToken(t) == t \notin {<<SPACE>>, <<NEWLINE>>}

\* the string is one of the words of the text being wrapped
IsOneWord(t) ==
    /\ t # <<>>
    /\ \E i \in 1..Len(Split(text)) : Split(text)[i] = t /\ IsWordToken(t)

\* the iteration appends the word of a word token to a line that is not empty
AppendsWord ==
    /\ WrapIterate
    /\ IsWordToken(words[wordIndex])
    /\ line # <<>>
    /\ lines' = lines

\* C20: for fonts whose advances are all non-negative, at the start of every
\* iteration of wrapText's loop the running width is measureText(font,
\* line).width; a word is appended to a non-empty line only when the line
\* with the word measures at most maxWidth; and every output line, without
\* its trailing spaces, measures at most maxWidth or is a single word.
C20_RunningWidthIsMeasuredWidth ==
    /\ [](NonNegativeAdvances(font) =>
            /\ wpc = "loop" => width = measureText(font, line).width
            /\ wpc = "done" =>
                  \A k \in 1..Len(lines) :
                      \/ ~GreaterThan(measureText(font, WithoutTrailingSpaces(lines[k])).width,
                                      maxWidth)
                      \/ IsOneWord(WithoutTrailingSpaces(lines[k])))
    /\ [][(NonNegativeAdvances(font) /\ AppendsWord) =>
            ~GreaterThan(measureText(font, line').width, maxWidth)]_vars

\* C20 witness: "A IA" has been wrapped at width 10 with "I" advancing 2:
\* "IA" did not fit behind "A " and went to a line of its own.
C20_Witness ==
    /\ wpc = "done" /\ maxWidth = Finite(10)
    /\ NonNegativeAdvances(font) /\ advance(font, 73) = 2
    /\ text = <<65, SPACE, 73, 65>>
    /\ lines = <<<<65, SPACE>>, <<73, 65>>>>

\* no loadSnapshot call and no paste or drop handler is at an await
NothingInFlight == loading = {} /\ pasting = {}

\* C21: when the font-loading request issued last is a createNewFont, then once
\* every request has completed the font has emptySnapshot's texture, in
\* whatever order the decodes of overlapping requests resolved.
C21_LastIssuedRequestWins ==
    (NothingInFlight /\ issuedLast = emptySnapshot.textureUrl)
        => font.texture.src = issuedLast

====
